---------------------------- MODULE Spec2Model ----------------------------
(***************************************************************************)
(* A model of the Lapiozo Fashion API (src/main.py, src/schemas.py): the   *)
(* product listing, order intake, diagnostics and seeding handlers over a  *)
(* document store with the collections "product" and "order".             *)
(*                                                                         *)
(* Numbers that are Python floats are held exactly, in thousandths: 10.0   *)
(* is 10000, 0.125 is 125.  The order inputs are multiples of 0.125, which *)
(* binary floating point holds and adds exactly, so that round(x, 2) is    *)
(* round-half-even on the exact value.                                     *)
(***************************************************************************)
EXTENDS Integers, Sequences, FiniteSets, TLC

VARIABLES
    db,        \* the process-wide store handle (database.db), None when unset
    env,       \* the environment variables DATABASE_URL and DATABASE_NAME
    product,   \* the "product" collection, in store order
    order,     \* the "order" collection, in store order
    nextId,    \* the store's next ObjectId
    seed,      \* each seed_products call in flight: pc, count, index, inserted
    request,   \* the request being answered
    response,  \* the answer to it
    doc,       \* serialize's argument, as the caller holds it
    out        \* serialize's result

vars == <<db, env, product, order, nextId, seed, request, response, doc, out>>

(***************************************************************************)
(* Bounds of the model.                                                    *)
(***************************************************************************)
MaxOrders == 1

MaxLimit == 3

MaxColl == 11

None == [t |-> "none", v |-> 0]

IsNone(x) == x.t = "none"

Min(a, b) == IF a < b THEN a ELSE b

Last(s) == s[Len(s)]

(***************************************************************************)
(* Python values, as the store and serialize see them: each carries its    *)
(* type, so that isinstance(v, ObjectId) is a test on the value.           *)
(***************************************************************************)
PyStr(s) == [t |-> "str", v |-> s]

PyFloat(m) == [t |-> "float", v |-> m]

PyBool(b) == [t |-> "bool", v |-> b]

PyList(l) == [t |-> "list", v |-> l]

PyOid(n) == [t |-> "oid", v |-> n]

HexDigit == <<"0", "1", "2", "3", "4", "5", "6", "7",
              "8", "9", "a", "b", "c", "d", "e", "f">>

RECURSIVE HexStr(_, _)
HexStr(n, width) ==
    IF width = 0 THEN ""
    ELSE HexStr(n \div 16, width - 1) \o HexDigit[(n % 16) + 1]

\* str(ObjectId): the 24 hexadecimal digits of its 12 bytes.
StrOfOid(o) == PyStr(HexStr(o.v, 24))

IsObjectId(v) == v.t = "oid"


\* str(v) for the identifiers a store holds: an ObjectId or a string.
StrOf(v) == CASE v.t = "oid" -> StrOfOid(v)
              [] v.t = "str" -> v

(***************************************************************************)
(* serialize (main.py): a copy of the document with "_id" popped and put   *)
(* back as the string "id", then every top-level ObjectId stringified.     *)
(***************************************************************************)
\* serialize with out["id"] = str(out["_id"]) in place of the pop.
serializeKeepsInternalId(d) ==
    LET hasId == "_id" \in DOMAIN d
        keys == IF hasId THEN DOMAIN d \cup {"id"} ELSE DOMAIN d
        copied == [k \in keys |->
                      IF hasId /\ k = "id" THEN StrOf(d["_id"]) ELSE d[k]]
    IN  [k \in keys |->
            IF IsObjectId(copied[k]) THEN StrOfOid(copied[k]) ELSE copied[k]]

serialize(d) ==
    LET hasId == "_id" \in DOMAIN d
        keys == IF hasId THEN (DOMAIN d \ {"_id"}) \cup {"id"} ELSE DOMAIN d
        popped == [k \in keys |->
                      IF hasId /\ k = "id" THEN StrOf(d["_id"]) ELSE d[k]]
    IN  [k \in keys |->
            IF IsObjectId(popped[k]) THEN StrOfOid(popped[k]) ELSE popped[k]]

\* A call of serialize: what the caller's document is afterwards, and the result.
SerializeCall(d) == [doc |-> d, out |-> serialize(d)]

(***************************************************************************)
(* The persistence accessor (database.py), seen from main.py.              *)
(***************************************************************************)
Matches(d, filt) == \A k \in DOMAIN filt : k \in DOMAIN d /\ d[k] = filt[k]

\* get_documents(collection, filter, limit) on a configured store.
get_documents(coll, filt, limit) ==
    LET Test(d) == Matches(d, filt)
        found == SelectSeq(coll, Test)
    IN  SubSeq(found, 1, Min(limit, Len(found)))

\* create_document(collection, data) on a configured store: the collection
\* afterwards, the store's next id, and the new id as a string.
create_document(coll, data, id) ==
    [coll |-> Append(coll, [k \in DOMAIN data \cup {"_id"} |->
                               IF k = "_id" THEN PyOid(id) ELSE data[k]]),
     nextId |-> id + 1,
     id |-> StrOfOid(PyOid(id)).v]

\* insert_one(document) on a collection of the store handle.
insert_one(coll, d, id) ==
    Append(coll, [k \in DOMAIN d \cup {"_id"} |->
                     IF k = "_id" THEN PyOid(id) ELSE d[k]])

(***************************************************************************)
(* Requests and responses.                                                 *)
(***************************************************************************)
NoBody == [empty |-> TRUE]

\* queried: whether the handler called the store (an accessor, a count, an
\* insert) while answering.
Resp(handler, status, detail, body, queried) ==
    [handler |-> handler, status |-> status, detail |-> detail,
     body |-> body, queried |-> queried]

NotConfigured(handler) ==
    Resp(handler, 500, "Database not configured", NoBody, FALSE)

\* An exception no handler catches: the framework answers 500.
InternalServerError(handler, queried) ==
    Resp(handler, 500, "Internal Server Error", NoBody, queried)

\* The schema layer's answer, before the handler body runs.
Unprocessable(handler) ==
    Resp(handler, 422, "validation error", NoBody, FALSE)

Req(handler, args) == [handler |-> handler, args |-> args]

(***************************************************************************)
(* Order intake.                                                           *)
(***************************************************************************)
Item(price, quantity) ==
    [product_id |-> "p1", title |-> "Coat", price |-> price,
     quantity |-> quantity, image |-> "none"]

\* The item lists of the payloads: none; 10.0 x 2 and 5.0 x 1; a price of
\* -1.0, alone and beside a positive one; sums that lie halfway between two
\* hundredths (0.125, 0.375, -0.875); a quantity of 0, alone and beside a
\* valid item.
ItemLists ==
    { <<>>,
      <<Item(10000, 2), Item(5000, 1)>>,
      <<Item(-1000, 1)>>,
      <<Item(5000, 1), Item(-1000, 1)>>,
      <<Item(125, 1)>>,
      <<Item(125, 3)>>,
      <<Item(-1000, 1), Item(125, 1)>>,
      <<Item(5000, 0)>>,
      <<Item(10000, 2), Item(5000, 0)>> }

ClientTotals == {-1000, 0, 99000}

TheCustomer == [name |-> "Ada", email |-> "ada@example.com", address |-> "none"]

OrderPayloads ==
    {[items |-> its, customer |-> TheCustomer, total |-> t] :
        its \in ItemLists, t \in ClientTotals}
    \cup {[items |-> its, total |-> 0] : its \in {<<>>, <<Item(5000, 1)>>}}

\* OrderItem (schemas.py): quantity >= 1 is its only numeric constraint.
ValidOrderItem(it) == it.quantity >= 1

\* Order (schemas.py): items, customer and total are required, total >= 0.
ValidOrder(p) ==
    /\ {"items", "customer", "total"} \subseteq DOMAIN p
    /\ \A i \in 1..Len(p.items) : ValidOrderItem(p.items[i])
    /\ p.total >= 0

\* order.model_dump(): every field, status by its default when not given.
model_dump(p) ==
    [items |-> p.items, customer |-> p.customer, total |-> p.total,
     status |-> IF "status" \in DOMAIN p THEN p.status ELSE "pending"]

RECURSIVE SumItems(_)
SumItems(items) ==
    IF items = <<>> THEN 0
    ELSE items[1].price * items[1].quantity + SumItems(Tail(items))

\* round(x, 2) of an exactly held x: to the nearest hundredth, a tie to the
\* even one.
Round2(m) ==
    LET q == m \div 10
        r == m % 10
    IN  IF r < 5 THEN 10 * q
        ELSE IF r > 5 THEN 10 * (q + 1)
        ELSE IF q % 2 = 0 THEN 10 * q ELSE 10 * (q + 1)

\* create_order trusting the total the client sent.
OrderTotalFromClient(p) == p.total

\* The total create_order persists.
OrderTotal(p) == Round2(SumItems(p.items))

OrderData(p) == [model_dump(p) EXCEPT !.total = OrderTotal(p)]

Configured == [t |-> "db", v |-> [name |-> "lapiozo", fails |-> "no",
                                  error |-> "", colls |-> <<"product", "order">>]]

create_order(p) ==
    /\ request' = Req("create_order", p)
    /\ IF ~ValidOrder(p)
       THEN /\ response' = Unprocessable("create_order")
            /\ UNCHANGED <<order, nextId>>
       ELSE IF IsNone(db)
       THEN /\ response' = NotConfigured("create_order")
            /\ UNCHANGED <<order, nextId>>
       ELSE LET made == create_document(order, OrderData(p), nextId)
            IN  /\ Len(order) < MaxOrders
                /\ order' = made.coll
                /\ nextId' = made.nextId
                /\ response' = Resp("create_order", 200, "",
                                    [id |-> made.id, status |-> "received"], TRUE)
    /\ UNCHANGED <<db, env, product, seed, doc, out>>

CreateOrder == \E p \in OrderPayloads : create_order(p)

(***************************************************************************)
(* The product catalogue.                                                  *)
(***************************************************************************)
Product(title, description, price, category, featured, image, alt) ==
    [title |-> PyStr(title), description |-> PyStr(description),
     price |-> PyFloat(price), category |-> PyStr(category),
     brand |-> PyStr("Lapiozo"), in_stock |-> PyBool(TRUE),
     images |-> PyList(<<[url |-> image, alt |-> alt]>>),
     featured |-> PyBool(featured)]

\* The literal samples of seed_products.
Samples ==
    << Product("Silk Trench Coat",
               "Double-breasted silk trench with mother-of-pearl buttons.",
               1890000, "Outerwear", TRUE,
               "https://images.unsplash.com/photo-1520975922284-047f014f2c2d",
               "Silk trench coat"),
       Product("Cashmere Crewneck", "Ultra-soft Italian cashmere sweater.",
               690000, "Knitwear", TRUE,
               "https://images.unsplash.com/photo-1523381210434-271e8be1f52b",
               "Cashmere sweater"),
       Product("Signature Tailored Trousers", "High-rise, tapered wool trousers.",
               520000, "Pants", FALSE,
               "https://images.unsplash.com/photo-1512436991641-6745cdb1723f",
               "Tailored trousers"),
       Product("Evening Silk Dress", "Bias-cut silk charmeuse with open back.",
               2290000, "Dresses", TRUE,
               "https://images.unsplash.com/photo-1503341455253-b2e723bb3dbb",
               "Silk dress") >>

\* ProductResponse, the response model of the listings: its fields of the
\* serialized document.
ProductResponse(d) ==
    [k \in {"id", "title", "description", "price", "category", "brand",
            "in_stock", "images", "featured"} |-> d[k]]

ListBody(docs) == [items |-> [i \in 1..Len(docs) |-> ProductResponse(serialize(docs[i]))]]

\* Python's truth value of an optional string parameter.
Truthy(x) == ~IsNone(x) /\ x.v # ""

\* The filter list_products builds from its parameters.
ListFilter(category, featured) ==
    LET keys == (IF Truthy(category) THEN {"category"} ELSE {})
                \cup (IF ~IsNone(featured) THEN {"featured"} ELSE {})
    IN  [k \in keys |-> IF k = "category" THEN category ELSE featured]

list_products(category, featured, limit) ==
    /\ request' = Req("list_products",
                      [category |-> category, featured |-> featured, limit |-> limit])
    /\ IF IsNone(db)
       THEN response' = NotConfigured("list_products")
       ELSE response' = Resp("list_products", 200, "",
                             ListBody(get_documents(product,
                                                    ListFilter(category, featured),
                                                    limit)), TRUE)
    /\ UNCHANGED <<db, env, product, order, nextId, seed, doc, out>>

Categories == {None, PyStr(""), PyStr("Outerwear"), PyStr("Shirts"), PyStr("Hats")}

FeaturedFlags == {None, PyBool(TRUE), PyBool(FALSE)}

Limits == 1..MaxLimit

ListProducts ==
    \E category \in Categories, featured \in FeaturedFlags, limit \in Limits :
        list_products(category, featured, limit)

\* featured_products calls the accessor whatever the handle is; on an unset
\* handle the accessor raises and the framework answers 500.
featured_products(limit) ==
    /\ request' = Req("featured_products", [limit |-> limit])
    /\ IF IsNone(db)
       THEN response' = InternalServerError("featured_products", TRUE)
       ELSE response' = Resp("featured_products", 200, "",
                             ListBody(get_documents(product,
                                                    [k \in {"featured"} |-> PyBool(TRUE)],
                                                    limit)), TRUE)
    /\ UNCHANGED <<db, env, product, order, nextId, seed, doc, out>>

FeaturedProducts == \E limit \in Limits : featured_products(limit)

(***************************************************************************)
(* Seeding.  A call is the count (SeedCount), then one insert_one for each *)
(* sample (SeedInsert), then the answer (SeedReturn); the store is free to *)
(* serve another call between any two of them.                             *)
(***************************************************************************)
Seeders == {"s1", "s2"}

Idle == [pc |-> "idle", count |-> 0, i |-> 0, inserted |-> 0]

\* seed_products without the early return on a non-empty collection.
SeedCountNoCheck(s) ==
    /\ seed[s].pc # "insert"
    /\ IF IsNone(db)
       THEN /\ seed' = [seed EXCEPT ![s] = Idle]
            /\ request' = Req("seed_products", [caller |-> s])
            /\ response' = NotConfigured("seed_products")
       ELSE /\ seed' = [seed EXCEPT ![s] =
                           [pc |-> "insert", count |-> Len(product), i |-> 1,
                            inserted |-> 0]]
            /\ UNCHANGED <<request, response>>
    /\ UNCHANGED <<db, env, product, order, nextId, doc, out>>

\* The check of the handle, count_documents({}) and the early return.
SeedCount(s) ==
    /\ seed[s].pc # "insert"
    /\ IF IsNone(db)
       THEN /\ seed' = [seed EXCEPT ![s] = Idle]
            /\ request' = Req("seed_products", [caller |-> s])
            /\ response' = NotConfigured("seed_products")
       ELSE LET count == Len(product)
            IN  IF count > 0
                THEN /\ seed' = [seed EXCEPT ![s] =
                                    [pc |-> "done", count |-> count, i |-> 0,
                                     inserted |-> 0]]
                     /\ request' = Req("seed_products", [caller |-> s])
                     /\ response' = Resp("seed_products", 200, "",
                                         [inserted |-> 0], TRUE)
                ELSE /\ seed' = [seed EXCEPT ![s] =
                                    [pc |-> "insert", count |-> count, i |-> 1,
                                     inserted |-> 0]]
                     /\ UNCHANGED <<request, response>>
    /\ UNCHANGED <<db, env, product, order, nextId, doc, out>>

\* The loop inserting the first sample at every turn.
SeedInsertFirstSample(s) ==
    /\ seed[s].pc = "insert"
    /\ seed[s].i <= Len(Samples)
    /\ product' = insert_one(product, Samples[1], nextId)
    /\ nextId' = nextId + 1
    /\ seed' = [seed EXCEPT ![s].i = @ + 1, ![s].inserted = @ + 1]
    /\ UNCHANGED <<db, env, order, request, response, doc, out>>

\* The loop made safe against a concurrent call: a sample whose title the
\* collection already holds is not inserted again.
SeedInsertIfAbsent(s) ==
    /\ seed[s].pc = "insert"
    /\ seed[s].i <= Len(Samples)
    /\ IF \E j \in 1..Len(product) : product[j].title = Samples[seed[s].i].title
       THEN /\ seed' = [seed EXCEPT ![s].i = @ + 1]
            /\ UNCHANGED <<product, nextId>>
       ELSE /\ product' = insert_one(product, Samples[seed[s].i], nextId)
            /\ nextId' = nextId + 1
            /\ seed' = [seed EXCEPT ![s].i = @ + 1, ![s].inserted = @ + 1]
    /\ UNCHANGED <<db, env, order, request, response, doc, out>>

\* One turn of the loop: insert_one({**s}); inserted += 1.
SeedInsert(s) ==
    /\ seed[s].pc = "insert"
    /\ seed[s].i <= Len(Samples)
    /\ product' = insert_one(product, Samples[seed[s].i], nextId)
    /\ nextId' = nextId + 1
    /\ seed' = [seed EXCEPT ![s].i = @ + 1, ![s].inserted = @ + 1]
    /\ UNCHANGED <<db, env, order, request, response, doc, out>>

SeedReturn(s) ==
    /\ seed[s].pc = "insert"
    /\ seed[s].i > Len(Samples)
    /\ seed' = [seed EXCEPT ![s].pc = "done"]
    /\ request' = Req("seed_products", [caller |-> s])
    /\ response' = Resp("seed_products", 200, "",
                        [inserted |-> seed[s].inserted], TRUE)
    /\ UNCHANGED <<db, env, product, order, nextId, doc, out>>

\* No other seed call is between its count and its answer.
NoOverlap(s) == \A o \in Seeders \ {s} : seed[o].pc # "insert"

(***************************************************************************)
(* Diagnostics.  The status texts are the source's without their emoji.    *)
(***************************************************************************)
Take(str, n) == SubSeq(str, 1, Min(n, Len(str)))

\* os.getenv(name) is truthy: the variable is set, and not to "".
EnvSet(x) == ~IsNone(x) /\ x.v # ""

\* What the try block of test_database leaves in the response: the handle
\* absent; the handle raising on an attribute access (caught by the outer
\* except); list_collection_names raising (caught by the inner except);
\* or the first ten collection names.
Probe(handle) ==
    IF IsNone(handle)
    THEN [database |-> "Available but not initialized",
          connection_status |-> "Not Connected", collections |-> <<>>]
    ELSE IF handle.v.fails = "attr"
    THEN [database |-> "Error: " \o Take(handle.v.error, 50),
          connection_status |-> "Not Connected", collections |-> <<>>]
    ELSE IF handle.v.fails = "list"
    THEN [database |-> "Connected but Error: " \o Take(handle.v.error, 50),
          connection_status |-> "Connected", collections |-> <<>>]
    ELSE [database |-> "Connected & Working",
          connection_status |-> "Connected",
          collections |-> SubSeq(handle.v.colls, 1, Min(10, Len(handle.v.colls)))]

\* test_database without its try blocks: what the handle raises escapes.
test_database_uncaught(handle, environ) ==
    IF ~IsNone(handle) /\ handle.v.fails # "no"
    THEN InternalServerError("test_database", handle.v.fails = "list")
    ELSE LET probe == Probe(handle)
         IN  Resp("test_database", 200, "",
                  [backend |-> "Running",
                   database |-> probe.database,
                   database_url |-> IF EnvSet(environ.DATABASE_URL)
                                    THEN "Set" ELSE "Not Set",
                   database_name |-> IF EnvSet(environ.DATABASE_NAME)
                                     THEN "Set" ELSE "Not Set",
                   connection_status |-> probe.connection_status,
                   collections |-> probe.collections],
                  ~IsNone(handle))

test_database(handle, environ) ==
    LET probe == Probe(handle)
    IN  Resp("test_database", 200, "",
             [backend |-> "Running",
              database |-> probe.database,
              database_url |-> IF EnvSet(environ.DATABASE_URL)
                               THEN "Set" ELSE "Not Set",
              database_name |-> IF EnvSet(environ.DATABASE_NAME)
                                THEN "Set" ELSE "Not Set",
              connection_status |-> probe.connection_status,
              collections |-> probe.collections],
             ~IsNone(handle) /\ handle.v.fails # "attr")

TestDatabase ==
    /\ request' = Req("test_database", NoBody)
    /\ response' = test_database(db, env)
    /\ UNCHANGED <<db, env, product, order, nextId, seed, doc, out>>

ReadRoot ==
    /\ request' = Req("read_root", NoBody)
    /\ response' = Resp("read_root", 200, "",
                        [brand |-> "Lapiozo", status |-> "ok"], FALSE)
    /\ UNCHANGED <<db, env, product, order, nextId, seed, doc, out>>

(***************************************************************************)
(* A call of serialize on a document of the caller.                        *)
(***************************************************************************)
Serialize ==
    LET call == SerializeCall(doc)
    IN  /\ request' = Req("serialize", doc)
        /\ doc' = call.doc
        /\ out' = call.out
        /\ UNCHANGED <<db, env, product, order, nextId, seed, response>>

NoRequest == Req("none", NoBody)

NoResponse == Resp("none", 0, "", NoBody, FALSE)

NoEnv == [DATABASE_URL |-> None, DATABASE_NAME |-> None]

NoDoc == [empty |-> PyBool(TRUE)]

InitOrders ==
    /\ db \in {None, Configured}
    /\ env = NoEnv
    /\ product = <<>>
    /\ order = <<>>
    /\ nextId = 1
    /\ seed = [s \in Seeders |-> Idle]
    /\ request = NoRequest
    /\ response = NoResponse
    /\ doc = NoDoc
    /\ out = NoDoc

NextOrders == CreateOrder

SpecOrders == InitOrders /\ [][NextOrders]_vars

\* A catalogue the store may hold when the service starts.
Existing ==
    << insert_one(<<>>, Product("Linen Shirt", "Washed linen.", 240000, "Shirts",
                                FALSE, "https://example.com/shirt", "Linen shirt"),
                  1)[1],
       insert_one(<<>>, Product("Wool Coat", "Double-faced wool.", 1250000,
                                "Outerwear", TRUE, "https://example.com/coat",
                                "Wool coat"), 2)[1] >>

InitCatalog ==
    /\ db \in {None, Configured}
    /\ env = NoEnv
    /\ product \in {<<>>, Existing}
    /\ order = <<>>
    /\ nextId = Len(product) + 1
    /\ seed = [s \in Seeders |-> Idle]
    /\ request = NoRequest
    /\ response = NoResponse
    /\ doc = NoDoc
    /\ out = NoDoc

\* The listings, and seed calls one after the other.
NextCatalog ==
    \/ ListProducts
    \/ FeaturedProducts
    \/ \E s \in Seeders : NoOverlap(s) /\ SeedCount(s)
    \/ \E s \in Seeders : SeedInsert(s)
    \/ \E s \in Seeders : SeedReturn(s)

SpecCatalog == InitCatalog /\ [][NextCatalog]_vars

\* Seed calls served concurrently.
NextRace ==
    \/ \E s \in Seeders : SeedCount(s)
    \/ \E s \in Seeders : SeedInsert(s)
    \/ \E s \in Seeders : SeedReturn(s)

SpecRace == InitCatalog /\ [][NextRace]_vars

(***************************************************************************)
(* The service whose store handle was left unset at startup: the handlers  *)
(* that touch the store.                                                   *)
(***************************************************************************)
InitUnset ==
    /\ db = None
    /\ env = NoEnv
    /\ product \in {<<>>, Existing}
    /\ order = <<>>
    /\ nextId = Len(product) + 1
    /\ seed = [s \in Seeders |-> Idle]
    /\ request = NoRequest
    /\ response = NoResponse
    /\ doc = NoDoc
    /\ out = NoDoc

NextUnset ==
    \/ ListProducts
    \/ FeaturedProducts
    \/ CreateOrder
    \/ \E s \in Seeders : SeedCount(s)

SpecUnset == InitUnset /\ [][NextUnset]_vars

(***************************************************************************)
(* The diagnostics over every state of the handle and the environment.     *)
(***************************************************************************)
EnvValues == {None, PyStr(""), PyStr("mongodb://localhost:27017")}

CollName(i) == "c" \o HexStr(i, 2)

CollLists == {[i \in 1..n |-> CollName(i)] : n \in 0..MaxColl}

ErrMsgs == {"", "timed out",
            "ServerSelectionTimeoutError: localhost:27017: [Errno 111] Connection refused"}

Handle(fails, error, colls) ==
    [t |-> "db", v |-> [name |-> "lapiozo", fails |-> fails, error |-> error,
                        colls |-> colls]]

DbHandles ==
    {None}
    \cup {Handle("no", "", c) : c \in CollLists}
    \cup {Handle(f, e, <<>>) : f \in {"list", "attr"}, e \in ErrMsgs}

InitDiag ==
    /\ db \in DbHandles
    /\ env \in [DATABASE_URL : EnvValues, DATABASE_NAME : EnvValues]
    /\ product = <<>>
    /\ order = <<>>
    /\ nextId = 1
    /\ seed = [s \in Seeders |-> Idle]
    /\ request = NoRequest
    /\ response = NoResponse
    /\ doc = NoDoc
    /\ out = NoDoc

NextDiag == TestDatabase \/ ReadRoot

SpecDiag == InitDiag /\ [][NextDiag]_vars

(***************************************************************************)
(* serialize over documents with and without "_id", "id" and identifier    *)
(* values at the top level and inside a list.                              *)
(***************************************************************************)
DocKeys == {"_id", "id", "title", "owner"}

DocValues(k) ==
    CASE k = "_id" -> {PyOid(10), PyOid(703710), PyStr("sku-1")}
      [] k = "id" -> {PyStr("x1"), PyOid(7)}
      [] k = "title" -> {PyStr("Coat")}
      [] k = "owner" -> {PyOid(255), PyStr("bob"), PyList(<<PyOid(3)>>)}

Docs ==
    UNION {{d \in [K -> UNION {DocValues(k) : k \in K}] :
               \A k \in K : d[k] \in DocValues(k)} : K \in SUBSET DocKeys}

InitSerialize ==
    /\ db = None
    /\ env = NoEnv
    /\ product = <<>>
    /\ order = <<>>
    /\ nextId = 1
    /\ seed = [s \in Seeders |-> Idle]
    /\ request = NoRequest
    /\ response = NoResponse
    /\ doc \in Docs
    /\ out = NoDoc

NextSerialize == Serialize

SpecSerialize == InitSerialize /\ [][NextSerialize]_vars

(***************************************************************************)
(* The whole service: every endpoint, seed calls served concurrently.  The *)
(* handlers share nothing but the handle, which none of them writes, and   *)
(* the properties below are checked under the specifications above, one    *)
(* for each part of the service.                                           *)
(***************************************************************************)
Init ==
    /\ db \in {None, Configured}
    /\ env = NoEnv
    /\ product \in {<<>>, Existing}
    /\ order = <<>>
    /\ nextId = Len(product) + 1
    /\ seed = [s \in Seeders |-> Idle]
    /\ request = NoRequest
    /\ response = NoResponse
    /\ doc = NoDoc
    /\ out = NoDoc

Next ==
    \/ ReadRoot
    \/ ListProducts
    \/ FeaturedProducts
    \/ CreateOrder
    \/ TestDatabase
    \/ \E s \in Seeders : SeedCount(s)
    \/ \E s \in Seeders : SeedInsert(s)
    \/ \E s \in Seeders : SeedReturn(s)

Spec == Init /\ [][Next]_vars

(***************************************************************************)
(*                             Properties                                  *)
(***************************************************************************)
RECURSIVE LinesTotal(_, _)
LinesTotal(items, n) ==
    IF n = 0 THEN 0
    ELSE LinesTotal(items, n - 1) + items[n].price * items[n].quantity

\* t is x rounded to two decimals: a hundredth, nearest to x, the even one
\* of the two when x lies halfway.
IsRound2Of(t, x) ==
    LET dist == IF t >= x THEN t - x ELSE x - t
    IN  /\ t % 10 = 0
        /\ dist <= 5
        /\ dist = 5 => (t \div 10) % 2 = 0

Accepted == response.handler = "create_order" /\ response.status = 200

\* C1: every order document in the "order" collection has total equal to
\* round(sum of price * quantity over its items, 2), and the document an
\* accepted create_order inserted carries the items of the payload and that
\* total, whatever total the client sent.
C1_PersistedTotalIsRoundedSum ==
    /\ \A i \in 1..Len(order) :
          IsRound2Of(order[i].total, LinesTotal(order[i].items, Len(order[i].items)))
    /\ Accepted =>
          /\ Len(order) > 0
          /\ Last(order).items = request.args.items
          /\ IsRound2Of(Last(order).total,
                        LinesTotal(request.args.items, Len(request.args.items)))

\* C1, witness: the client sent total 0 with 10.0 x 2 and 5.0 x 1, and 25.0
\* is persisted.
C1_Witness ==
    /\ Accepted
    /\ request.args.total = 0
    /\ request.args.items = <<Item(10000, 2), Item(5000, 1)>>
    /\ Last(order).total = 25000

HasBadItem(p) ==
    \E i \in 1..Len(p.items) :
        p.items[i].quantity = 0 \/ p.items[i].price = -1000

\* C2: a payload with an item of quantity 0 or of price -1 is answered 422,
\* and no such order is in the "order" collection.
C2_BadItemsRejected ==
    /\ (request.handler = "create_order" /\ HasBadItem(request.args))
          => response.status = 422
    /\ \A i \in 1..Len(order) : ~HasBadItem(order[i])

StoreHandlers ==
    {"list_products", "featured_products", "create_order", "seed_products"}

\* C3: with the store handle unset, every handler that touches the store and
\* whose body ran (the payload passed the schema layer) answers 500 with the
\* detail "Database not configured", without having called the store.
C3_UnsetHandleFailsFast ==
    (IsNone(db) /\ response.handler \in StoreHandlers /\ response.status # 422)
        => /\ response.status = 500
           /\ response.detail = "Database not configured"
           /\ ~response.queried

\* C4: every document of the "order" collection has total >= 0, and every
\* item of it price >= 0 and quantity >= 1.
C4_StoredOrdersWithinSchema ==
    \A i \in 1..Len(order) :
        /\ order[i].total >= 0
        /\ \A j \in 1..Len(order[i].items) :
              /\ order[i].items[j].price >= 0
              /\ order[i].items[j].quantity >= 1

SampleTitles == <<"Silk Trench Coat", "Cashmere Crewneck",
                  "Signature Tailored Trousers", "Evening Silk Dress">>

Occurrences(title) ==
    Cardinality({i \in 1..Len(product) : product[i].title = PyStr(title)})

SeedAnswered ==
    /\ response.handler = "seed_products"
    /\ response.status = 200
    /\ seed[request.args.caller].pc = "done"

\* A seed call that counted a non-empty collection has inserted nothing and
\* answers inserted = 0; no sample is in the collection twice.
SeedNoopOnNonEmpty ==
    /\ \A s \in Seeders :
          (seed[s].pc \in {"insert", "done"} /\ seed[s].count > 0)
              => seed[s].pc = "done" /\ seed[s].inserted = 0
    /\ (SeedAnswered /\ seed[request.args.caller].count > 0)
          => response.body.inserted = 0
    /\ \A k \in 1..Len(SampleTitles) : Occurrences(SampleTitles[k]) <= 1

\* The collection changes only by one document appended after the existing
\* ones, for a call that counted an empty collection.
ProductOnlyAppendedBySeedOfEmpty ==
    product' # product =>
        /\ Len(product') = Len(product) + 1
        /\ SubSeq(product', 1, Len(product)) = product
        /\ \E s \in Seeders :
              /\ seed[s].pc = "insert"
              /\ seed[s].count = 0
              /\ seed'[s].inserted = seed[s].inserted + 1

\* C5: seed_products on a non-empty product collection inserts nothing,
\* answers inserted = 0 and leaves the existing documents as they are; over
\* seed calls that do not overlap no sample is inserted twice.
C5_SeedOnNonEmptyIsNoop ==
    []SeedNoopOnNonEmpty /\ [][ProductOnlyAppendedBySeedOfEmpty]_vars

\* C5, witness: after one call seeded the empty collection, a second call
\* counted 4 documents, answered inserted = 0, and the collection holds 4.
C5_Witness ==
    /\ SeedAnswered
    /\ seed[request.args.caller].count = 4
    /\ response.body.inserted = 0
    /\ Len(product) = 4
    /\ \E s \in Seeders : seed[s].pc = "done" /\ seed[s].inserted = 4

SeededAs(d, title, price, featured) ==
    /\ d.title = PyStr(title)
    /\ d.price = PyFloat(price)
    /\ d.featured = PyBool(featured)

\* C6: a seed call that counted an empty collection, once it has answered,
\* has inserted exactly the four samples, in order, with their titles,
\* prices and featured flags, and answers inserted = 4.
C6_SeedInsertsTheFourSamples ==
    \A s \in Seeders :
        (seed[s].pc = "done" /\ seed[s].count = 0) =>
            /\ seed[s].inserted = 4
            /\ Len(product) = 4
            /\ SeededAs(product[1], "Silk Trench Coat", 1890000, TRUE)
            /\ SeededAs(product[2], "Cashmere Crewneck", 690000, TRUE)
            /\ SeededAs(product[3], "Signature Tailored Trousers", 520000, FALSE)
            /\ SeededAs(product[4], "Evening Silk Dress", 2290000, TRUE)
            /\ (SeedAnswered /\ request.args.caller = s)
                  => response.body.inserted = 4

\* C6, witness: a call on the empty collection has answered inserted = 4.
C6_Witness ==
    /\ SeedAnswered
    /\ seed[request.args.caller].count = 0
    /\ response.body.inserted = 4
    /\ Len(product) = 4

\* C7: every product list_products returns has the category asked for, when
\* one is given, and the featured flag asked for, when one is given, and
\* there are at most limit of them.
C7_ListingHonoursFilter ==
    (response.handler = "list_products" /\ response.status = 200) =>
        LET items == response.body.items
            asked == request.args
        IN  /\ Len(items) <= asked.limit
            /\ \A i \in 1..Len(items) :
                  /\ ~IsNone(asked.category) => items[i].category = asked.category
                  /\ ~IsNone(asked.featured) => items[i].featured = asked.featured

StartsWith(str, prefix) ==
    Len(str) >= Len(prefix) /\ SubSeq(str, 1, Len(prefix)) = prefix

Tested == request.handler = "test_database"

\* C8: test_database answers 200 in every state of the handle; an absent
\* handle, a raising list_collection_names and a raising attribute access
\* show only in the body's database status, and collections holds at most
\* ten names, the first ones of the store.
C8_TestAlwaysAnswers200 ==
    Tested =>
        /\ response.handler = "test_database"
        /\ response.status = 200
        /\ response.body.backend = "Running"
        /\ Len(response.body.collections) <= 10
        /\ IsNone(db) =>
              response.body.database = "Available but not initialized"
        /\ (~IsNone(db) /\ db.v.fails = "list") =>
              /\ StartsWith(response.body.database, "Connected but Error: ")
              /\ response.body.collections = <<>>
        /\ (~IsNone(db) /\ db.v.fails = "attr") =>
              /\ StartsWith(response.body.database, "Error: ")
              /\ response.body.collections = <<>>
        /\ (~IsNone(db) /\ db.v.fails = "no") =>
              /\ response.body.database = "Connected & Working"
              /\ \A i \in 1..Len(response.body.collections) :
                    response.body.collections[i] = db.v.colls[i]

\* C8, witness: list_collection_names raised, and the answer is 200 with the
\* failure in the database status.
C8_Witness ==
    /\ Tested
    /\ ~IsNone(db)
    /\ db.v.fails = "list"
    /\ db.v.error # ""
    /\ response.status = 200
    /\ StartsWith(response.body.database, "Connected but Error: ")

DigitOf(c) == CHOOSE k \in 0..15 : HexDigit[k + 1] = c

RECURSIVE HexValue(_)
HexValue(str) ==
    IF Len(str) = 0 THEN 0
    ELSE 16 * HexValue(SubSeq(str, 1, Len(str) - 1))
         + DigitOf(SubSeq(str, Len(str), Len(str)))

\* w is the string of the identifier v: 24 hexadecimal digits that read
\* back as the ObjectId, or the string itself.
Stringified(v, w) ==
    /\ w.t = "str"
    /\ IF v.t = "oid"
       THEN /\ Len(w.v) = 24
            /\ \A i \in 1..24 : \E k \in 1..16 : SubSeq(w.v, i, i) = HexDigit[k]
            /\ HexValue(w.v) = v.v
       ELSE w = v

Serialized == request.handler = "serialize" /\ "_id" \in DOMAIN request.args

\* Of the argument's fields `kept`, each is in the result, as a string when
\* it is an ObjectId and as it was when not.
SerializeOf(kept) ==
    /\ "id" \in DOMAIN out
    /\ Stringified(request.args["_id"], out["id"])
    /\ "_id" \notin DOMAIN out
    /\ \A k \in kept :
          /\ k \in DOMAIN out
          /\ IF request.args[k].t = "oid"
             THEN Stringified(request.args[k], out[k])
             ELSE out[k] = request.args[k]
    /\ doc = request.args

\* C9 as stated: the result has the string id of _id, no _id, and every
\* other top-level field of the argument; the argument is not modified.
C9_SerializeKeepsEveryOtherField ==
    Serialized => SerializeOf(DOMAIN request.args \ {"_id"})

\* C9, amended: the result has the string id of _id, no _id, and every
\* top-level field of the argument other than _id and id (an id field of
\* the argument is replaced by the string of _id); the argument is not
\* modified.
C9_SerializeKeepsFieldsButId ==
    Serialized => SerializeOf(DOMAIN request.args \ {"_id", "id"})

\* C9, witness: a document with _id, an id of its own and an ObjectId in
\* another field has been serialized.
C9_Witness ==
    /\ Serialized
    /\ {"id", "owner"} \subseteq DOMAIN request.args
    /\ request.args["_id"].t = "oid"
    /\ request.args["owner"].t = "oid"
    /\ out["owner"].t = "str"
    /\ "_id" \notin DOMAIN out

PassedEmptyCheck(s) == seed[s].pc \in {"insert", "done"} /\ seed[s].count = 0

\* C10: the count and the inserts of seed_products are not atomic: a call
\* that counted an empty collection inserts every sample whatever another
\* call has inserted meanwhile, so that each sample is in the collection at
\* least once for every such call that has passed it, and each such call
\* answers inserted = 4.
C10_SeedCheckThenInsertNotAtomic ==
    /\ \A s \in Seeders :
          (seed[s].pc = "done" /\ seed[s].count = 0) => seed[s].inserted = 4
    /\ \A k \in 1..Len(SampleTitles) :
          Occurrences(SampleTitles[k])
              >= Cardinality({s \in Seeders : PassedEmptyCheck(s) /\ seed[s].i > k})

\* C10, witness: both calls counted 0, both answered inserted = 4, and the
\* collection holds 8 documents, each sample twice.
C10_Witness ==
    /\ \A s \in Seeders :
          seed[s].pc = "done" /\ seed[s].count = 0 /\ seed[s].inserted = 4
    /\ Len(product) = 8
    /\ \A k \in 1..Len(SampleTitles) : Occurrences(SampleTitles[k]) = 2

============================================================================
